---- MODULE Spec2Model ----
(***************************************************************************)
(* State-machine model of indego_trip_etl_solution.py: a CSV file is read  *)
(* row by row (extract), every row is converted and validated              *)
(* (field_checker, called from transform) and the surviving rows are       *)
(* inserted into the sqlite3 table trips (create_db, load), driven by main.*)
(*                                                                         *)
(* A text is a sequence of characters, every character a one-element       *)
(* string; the token "SUP2" stands for the character U+00B2 (superscript   *)
(* two), for which str.isdigit() is True and int() raises ValueError.      *)
(* A Python value is a record [t, n, s]: t is the type ("str", "int",      *)
(* "float", "none"), n the number of an int or float, s the text of a str. *)
(* datetime.timestamp() of a naive datetime depends on the local time      *)
(* zone; the model runs with TZ=UTC.                                       *)
(***************************************************************************)
EXTENDS Integers, Sequences, FiniteSets, TLC

\* ------------------------------------------------------------------ bounds
MaxRows == 2
MaxRuns == 2

\* ----------------------------------------------------------- Python values
PyNone == [t |-> "none", n |-> 0, s |-> <<>>]
PyStr(chars) == [t |-> "str", n |-> 0, s |-> chars]
PyInt(k) == [t |-> "int", n |-> k, s |-> <<>>]
PyFloat(k) == [t |-> "float", n |-> k, s |-> <<>>]

DigitSeq == <<"0", "1", "2", "3", "4", "5", "6", "7", "8", "9">>
DecimalChars == {DigitSeq[i] : i \in 1..10}
\* characters with the Unicode property Digit: str.isdigit() accepts them
IsDigitChars == DecimalChars \cup {"SUP2"}
DigitVal(c) == (CHOOSE i \in 1..10 : DigitSeq[i] = c) - 1

RECURSIVE ToNum(_)
ToNum(chars) ==
    IF chars = <<>> THEN 0
    ELSE 10 * ToNum(SubSeq(chars, 1, Len(chars) - 1)) + DigitVal(chars[Len(chars)])

RECURSIVE NatToChars(_)
NatToChars(k) ==
    IF k < 10 THEN <<DigitSeq[k + 1]>>
    ELSE NatToChars(k \div 10) \o <<DigitSeq[(k % 10) + 1]>>

IntToChars(k) == IF k < 0 THEN <<"-">> \o NatToChars(0 - k) ELSE NatToChars(k)

AllIn(chars, S) == \A i \in 1..Len(chars) : chars[i] \in S

\* str(s) of a value
PyStrOf(v) ==
    CASE v.t = "str" -> v.s
      [] v.t = "none" -> <<"N", "o", "n", "e">>
      [] v.t = "int" -> IntToChars(v.n)
      [] v.t = "float" -> IntToChars(v.n) \o <<".", "0">>

\* str.isdigit(): at least one character and every character a digit
IsDigit(chars) == chars # <<>> /\ AllIn(chars, IsDigitChars)

\* A conversion returns [k |-> "val", v |-> value], [k |-> "none"] (the
\* function returned None) or [k |-> "raise", exc |-> name].
Ret(v) == [k |-> "val", v |-> v, exc |-> ""]
RetNone == [k |-> "none", v |-> PyNone, exc |-> ""]
Raise(e) == [k |-> "raise", v |-> PyNone, exc |-> e]

\* int(s) on a text of digit characters
PyIntOf(chars) ==
    IF chars # <<>> /\ AllIn(chars, DecimalChars) THEN Ret(PyInt(ToNum(chars)))
    ELSE Raise("ValueError")

\* str(s).isdigit() and '.' not in str(s), then int(s), on the text of str(s)
ConvertIntText(chars) ==
    IF IsDigit(chars) /\ ~(\E i \in 1..Len(chars) : chars[i] = ".")
    THEN PyIntOf(chars)
    ELSE RetNone

convert_int(v) == ConvertIntText(PyStrOf(v))

\* ------------------------------------------- datetime.strptime / timestamp
IndexFrom(chars, c, from) ==
    IF \E i \in from..Len(chars) : chars[i] = c
    THEN CHOOSE i \in from..Len(chars) :
            chars[i] = c /\ \A j \in from..(i - 1) : chars[j] # c
    ELSE 0

\* a directive of one or two digits with a value in lo..hi
TwoDigit(chars, lo, hi) ==
    /\ Len(chars) \in {1, 2}
    /\ AllIn(chars, DecimalChars)
    /\ ToNum(chars) \in lo..hi

\* %d also accepts a blank followed by one digit 1..9
DayText(chars) ==
    \/ TwoDigit(chars, 1, 31)
    \/ Len(chars) = 2 /\ chars[1] = " " /\ chars[2] \in DecimalChars \ {"0"}

DayNum(chars) == IF chars[1] = " " THEN DigitVal(chars[2]) ELSE ToNum(chars)

IsLeap(y) == (y % 4 = 0 /\ y % 100 # 0) \/ y % 400 = 0

DaysInMonth(y, m) ==
    IF m = 2 THEN (IF IsLeap(y) THEN 29 ELSE 28)
    ELSE IF m \in {4, 6, 9, 11} THEN 30 ELSE 31

\* days from 1970-01-01 to the civil date y-m-d (proleptic Gregorian)
DaysFromCivil(y, m, d) ==
    LET yy == IF m <= 2 THEN y - 1 ELSE y
        era == yy \div 400
        yoe == yy - era * 400
        mp == (m + 9) % 12
        doy == (153 * mp + 2) \div 5 + d - 1
        doe == yoe * 365 + yoe \div 4 - yoe \div 100 + doy
    IN  era * 146097 + doe - 719468

FirstNonBlank(chars, from) ==
    IF \E i \in from..Len(chars) : chars[i] # " "
    THEN CHOOSE i \in from..Len(chars) :
            chars[i] # " " /\ \A j \in from..(i - 1) : chars[j] = " "
    ELSE 0

\* the datetime of the fields and its timestamp()
StrpDate(y, m, d, h, n) ==
    IF y < 1 \/ d > DaysInMonth(y, m) THEN Raise("ValueError")
    ELSE Ret(PyFloat(DaysFromCivil(y, m, d) * 86400 + h * 3600 + n * 60))

\* the texts matched by %m, %d, %Y, %H and %M
StrpFields(mtxt, dtxt, ytxt, htxt, ntxt) ==
    IF /\ TwoDigit(mtxt, 1, 12)
       /\ dtxt # <<>> /\ DayText(dtxt)
       /\ AllIn(ytxt, DecimalChars)
       /\ TwoDigit(htxt, 0, 23)
       /\ TwoDigit(ntxt, 0, 59)
    THEN StrpDate(ToNum(ytxt), ToNum(mtxt), DayNum(dtxt), ToNum(htxt), ToNum(ntxt))
    ELSE Raise("ValueError")

\* i1, i2: the two "/"; the year is the four characters after i2; hs: the
\* first character after the blanks that follow the year; i3: the ":"
StrpSplit(s, monthFirst, i1, i2, hs, i3) ==
    IF i3 = 0 THEN Raise("ValueError")
    ELSE StrpFields(IF monthFirst THEN SubSeq(s, 1, i1 - 1) ELSE SubSeq(s, i1 + 1, i2 - 1),
                    IF monthFirst THEN SubSeq(s, i1 + 1, i2 - 1) ELSE SubSeq(s, 1, i1 - 1),
                    SubSeq(s, i2 + 1, i2 + 4),
                    SubSeq(s, hs, i3 - 1),
                    SubSeq(s, i3 + 1, Len(s)))

StrpHour(s, monthFirst, i1, i2, hs) ==
    IF hs = 0 \/ hs = i2 + 5 THEN Raise("ValueError")
    ELSE StrpSplit(s, monthFirst, i1, i2, hs, IndexFrom(s, ":", hs))

StrpYear(s, monthFirst, i1, i2) ==
    IF i2 = 0 \/ i2 + 5 > Len(s) THEN Raise("ValueError")
    ELSE StrpHour(s, monthFirst, i1, i2, FirstNonBlank(s, i2 + 5))

StrpMonthDay(s, monthFirst, i1) ==
    IF i1 = 0 THEN Raise("ValueError")
    ELSE StrpYear(s, monthFirst, i1, IndexFrom(s, "/", i1 + 1))

\* datetime.strptime(value, "%m/%d/%Y %H:%M").timestamp(): the seconds as a
\* float, or the exception raised ("TypeError" for a value that is no str)
StrpTimestampMD(v, monthFirst) ==
    IF v.t # "str" THEN Raise("TypeError")
    ELSE StrpMonthDay(v.s, monthFirst, IndexFrom(v.s, "/", 1))

\* the format with day and month exchanged, "%d/%m/%Y %H:%M"
StrpTimestampDayFirst(v) == StrpTimestampMD(v, FALSE)

StrpTimestamp(v) == StrpTimestampMD(v, TRUE)

\* except Exception as error: logger.exception(error); return None
ExceptReturnNone(r) == IF r.k = "raise" THEN RetNone ELSE r

\* try: return strptime(...).timestamp()  except Exception: return None
convert_posix_time(v) == ExceptReturnNone(StrpTimestamp(v))

\* ------------------------------------------------------------ field_checker
\* dict_transform and dict_field_types, in insertion order
dict_transform == <<"start_time", "end_time">>
dict_field_types == <<"trip_id", "duration", "bike_id", "plan_duration">>

Convert(kind, v) == IF kind = "posix" THEN convert_posix_time(v) ELSE convert_int(v)

RECURSIVE ConvertLoopKeepsNone(_, _, _, _)
\* the loop without its break: a failed field is set to None and the loop goes on
ConvertStepKeepsNone(row, fields, kind, i, r) ==
    IF r.k = "raise" THEN [k |-> "raise", row |-> row, exc |-> r.exc]
    ELSE ConvertLoopKeepsNone([row EXCEPT ![fields[i]] = r.v], fields, kind, i + 1)

ConvertLoopKeepsNone(row, fields, kind, i) ==
    IF i > Len(fields) THEN [k |-> "ok", row |-> row, exc |-> ""]
    ELSE IF fields[i] \notin DOMAIN row THEN [k |-> "raise", row |-> row, exc |-> "KeyError"]
    ELSE ConvertStepKeepsNone(row, fields, kind, i, Convert(kind, row[fields[i]]))

RECURSIVE ConvertLoop(_, _, _, _)
\* the body of the loop after the conversion of field i has given r: the
\* exception goes on, None sets error and breaks, a value is stored
ConvertStep(row, fields, kind, i, r) ==
    CASE r.k = "raise" -> [k |-> "raise", row |-> row, exc |-> r.exc]
      [] r.k = "none" -> [k |-> "error", row |-> row, exc |-> ""]
      [] r.k = "val" -> ConvertLoop([row EXCEPT ![fields[i]] = r.v], fields, kind, i + 1)

\* One of the two for loops of field_checker from its i-th field on: the row
\* with the fields converted (k = "ok"), error = True after the break
\* (k = "error"), or the exception that leaves the loop (k = "raise"); a key
\* that is not in the row raises KeyError.
ConvertLoop(row, fields, kind, i) ==
    IF i > Len(fields) THEN [k |-> "ok", row |-> row, exc |-> ""]
    ELSE IF fields[i] \notin DOMAIN row THEN [k |-> "raise", row |-> row, exc |-> "KeyError"]
    ELSE ConvertStep(row, fields, kind, i, Convert(kind, row[fields[i]]))

\* field_checker after the loop over dict_field_types has given q
FieldCheckerInts(q) ==
    CASE q.k = "raise" -> [k |-> "raise", rows |-> <<>>, exc |-> q.exc, log |-> ""]
      [] q.k = "error" -> [k |-> "none", rows |-> <<>>, exc |-> "", log |-> "data_type"]
      [] q.k = "ok" -> [k |-> "row", rows |-> <<q.row>>, exc |-> "", log |-> ""]

\* field_checker after the loop over dict_transform has given p
FieldCheckerPosix(p) ==
    CASE p.k = "raise" -> [k |-> "raise", rows |-> <<>>, exc |-> p.exc, log |-> ""]
      [] p.k = "error" -> [k |-> "none", rows |-> <<>>, exc |-> "", log |-> "posix_time"]
      [] p.k = "ok" -> FieldCheckerInts(ConvertLoop(p.row, dict_field_types, "int", 1))

\* field_checker(row): rows is <<return_row>> when a row is returned and <<>>
\* when None is returned or an exception leaves the function; log is the
\* message logged, "" for none.
field_checker(row) == FieldCheckerPosix(ConvertLoop(row, dict_transform, "posix", 1))

\* ------------------------------------------------------------------ sqlite3
\* the columns of CREATE TABLE trips, in order, and their declared types
TableCols ==
    <<"trip_id", "duration", "start_time", "end_time", "start_station",
      "start_lat", "start_lon", "end_station", "end_lat", "end_lon", "bike_id",
      "plan_duration", "trip_route_category", "passholder_type", "bike_type">>
ColType ==
    <<"integer", "integer", "text", "text", "integer", "text", "text", "text",
      "text", "text", "integer", "integer", "text", "text", "text">>
NumCols == Len(TableCols)

\* column affinity: a TEXT column stores a number as its text, an INTEGER
\* column stores a text of decimal digits or an integral real as an integer
ApplyAffinity(ty, v) ==
    IF ty = "text"
    THEN (IF v.t \in {"int", "float"} THEN PyStr(PyStrOf(v)) ELSE v)
    ELSE IF v.t = "str" /\ v.s # <<>> /\ AllIn(v.s, DecimalChars) THEN PyInt(ToNum(v.s))
    ELSE IF v.t = "float" THEN PyInt(v.n)
    ELSE v

MaxRowid(table) ==
    IF table = {} THEN 0 ELSE CHOOSE k \in {r[1].n : r \in table} :
                                    \A r \in table : r[1].n <= k

\* the INSERT of the values after column affinity: the primary key is an
\* integer, a new rowid for NULL, and unique
SqlInsertStored(table, aff) ==
    IF aff[1].t \notin {"int", "none"}
    THEN [ok |-> FALSE, table |-> table, err |-> "datatype mismatch"]
    ELSE IF \E r \in table : r[1] = aff[1]
    THEN [ok |-> FALSE, table |-> table, err |-> "UNIQUE"]
    ELSE [ok |-> TRUE, err |-> "",
          table |-> table \cup {IF aff[1].t = "none"
                                THEN [aff EXCEPT ![1] = PyInt(MaxRowid(table) + 1)]
                                ELSE aff}]

\* INSERT INTO trips VALUES (?,...,?) with the bound values: the table after
\* the statement, or the sqlite3 error it raises
SqlInsert(table, values) ==
    IF Len(values) # NumCols THEN [ok |-> FALSE, table |-> table, err |-> "bindings"]
    ELSE SqlInsertStored(table, [i \in 1..NumCols |-> ApplyAffinity(ColType[i], values[i])])

\* create_db without its DELETE
SqlDeleteNone(table) == table

\* DELETE FROM trips
SqlDeleteAll(table) == {}

\* ------------------------------------------------------------- csv.DictReader
IndexOf(seq, x) == CHOOSE i \in 1..Len(seq) : seq[i] = x
Range(seq) == {seq[i] : i \in 1..Len(seq)}

\* A data line holds the texts of its fields (f, by the column they stand
\* under) and the number of fields on the line (len): a short line gets None
\* for the missing trailing fields.
DictReaderRow(hdr, line) ==
    [c \in Range(hdr) |->
        IF IndexOf(hdr, c) <= line.len THEN PyStr(line.f[c]) ELSE PyNone]

\* tuple(t.values()): the values in the insertion order of the keys
DictValues(hdr, t) == [i \in 1..Len(hdr) |-> t[hdr[i]]]

\* ------------------------------------------------------------- sample input
TxtTime0800 == <<"0", "6", "/", "0", "1", "/", "2", "0", "2", "1", " ", "0", "8", ":", "0", "0">>
TxtTime0810 == <<"0", "6", "/", "0", "1", "/", "2", "0", "2", "1", " ", "0", "8", ":", "1", "0">>
TxtTimeShort == <<"6", "/", "1", "/", "2", "0", "2", "1", " ", "8", ":", "0", "0">>
TxtTimeLeap == <<"0", "2", "/", "2", "9", "/", "2", "0", "2", "0", " ", "2", "3", ":", "5", "9">>
TxtTimeFeb30 == <<"0", "2", "/", "3", "0", "/", "2", "0", "2", "1", " ", "0", "8", ":", "1", "0">>
TxtNotADate == <<"n", "o", "t", "-", "a", "-", "d", "a", "t", "e">>
Txt600 == <<"6", "0", "0">>
Txt12Dot0 == <<"1", "2", ".", "0">>
TxtSup2 == <<"SUP2">>
TxtTimeEpoch == <<"0", "1", "/", "0", "1", "/", "1", "9", "7", "0", " ", "0", "0", ":", "0", "0">>

BaseFields ==
    [c \in Range(TableCols) |->
        CASE c = "trip_id" -> <<"1">>
          [] c = "duration" -> Txt600
          [] c = "start_time" -> TxtTime0800
          [] c = "end_time" -> TxtTime0810
          [] c = "start_station" -> <<"3", "0", "1", "0">>
          [] c = "start_lat" -> <<"3", "9", ".", "9", "5">>
          [] c = "start_lon" -> <<"-", "7", "5", ".", "1", "6">>
          [] c = "end_station" -> <<"3", "0", "2", "0">>
          [] c = "end_lat" -> <<"3", "9", ".", "9", "6">>
          [] c = "end_lon" -> <<"-", "7", "5", ".", "1", "7">>
          [] c = "bike_id" -> <<"5", "0", "0", "1">>
          [] c = "plan_duration" -> <<"3", "0">>
          [] c = "trip_route_category" -> <<"O", "n", "e", " ", "W", "a", "y">>
          [] c = "passholder_type" -> <<"I", "n", "d", "e", "g", "o", "3", "0">>
          [] c = "bike_type" -> <<"s", "t", "a", "n", "d", "a", "r", "d">>]

Line(f, len) == [f |-> f, len |-> len]
With1(f, c, txt) == [f EXCEPT ![c] = txt]
With2(f, c, txt, d, txt2) == [f EXCEPT ![c] = txt, ![d] = txt2]

\* The data lines a file is drawn from: valid lines (two of them with the same
\* trip_id, two with the same duration), lines with one field that fails its
\* rule, and short lines.
SampleLines ==
    { Line(BaseFields, NumCols),
      Line(With1(BaseFields, "trip_id", <<"2">>), NumCols),
      Line(With1(BaseFields, "bike_type", <<"e", "l", "e", "c", "t", "r", "i", "c">>), NumCols),
      Line(With2(BaseFields, "trip_id", <<"3">>, "start_time", TxtNotADate), NumCols),
      Line(With2(BaseFields, "trip_id", <<"4">>, "duration", Txt12Dot0), NumCols),
      Line(With1(BaseFields, "trip_id", TxtSup2), NumCols),
      Line(With1(BaseFields, "trip_id", <<"5">>), 11),
      Line([BaseFields EXCEPT !["trip_id"] = <<"6">>, !["start_time"] = TxtTimeShort,
                              !["end_time"] = TxtTimeLeap], 13),
      Line(With2(BaseFields, "trip_id", <<"7">>, "end_time", TxtTimeFeb30), NumCols),
      Line(With2(BaseFields, "trip_id", <<"8">>, "bike_id", <<>>), NumCols),
      Line(With2(BaseFields, "trip_id", <<"0">>, "start_time", TxtTimeEpoch), NumCols) }

SeqsUpTo(S, n) == UNION {[1..k -> S] : k \in 0..n}

\* Lines with every combination of a good and a bad text in the six governed
\* fields; a file holds one of them.
FieldLines ==
    { Line([BaseFields EXCEPT !["start_time"] = st, !["end_time"] = et, !["trip_id"] = ti,
                              !["duration"] = du, !["bike_id"] = bi,
                              !["plan_duration"] = pl], NumCols) :
        st \in {TxtTime0800, TxtNotADate}, et \in {TxtTime0810, TxtTimeFeb30},
        ti \in {<<"1">>, TxtSup2, Txt12Dot0}, du \in {Txt600, Txt12Dot0},
        bi \in {BaseFields["bike_id"], <<>>}, pl \in {BaseFields["plan_duration"], TxtSup2} }

\* the files: up to MaxRows sample lines, or one of the field lines
SampleFiles == SeqsUpTo(SampleLines, MaxRows) \cup {<<l>> : l \in FieldLines}

\* The header lines: the order of the table, trip_id and duration exchanged,
\* and a header without the column plan_duration.
HeaderCanon == TableCols
HeaderSwapped ==
    [i \in 1..NumCols |-> IF i = 1 THEN "duration" ELSE IF i = 2 THEN "trip_id"
                          ELSE TableCols[i]]
HeaderNoPlan == SelectSeq(TableCols, LAMBDA c : c # "plan_duration")
SampleHeaders == {HeaderCanon, HeaderSwapped, HeaderNoPlan}

\* a row an earlier run has stored
StoredRow(trip, dur) ==
    DictValues(TableCols,
        [c \in Range(TableCols) |->
            CASE c = "trip_id" -> PyInt(trip)
              [] c = "duration" -> PyInt(dur)
              [] c \in {"start_time", "end_time"} -> PyStr(PyStrOf(PyFloat(1622534400)))
              [] c \in {"start_station", "bike_id", "plan_duration"} ->
                    PyInt(ToNum(BaseFields[c]))
              [] OTHER -> PyStr(BaseFields[c])])
SampleTables == { {}, {StoredRow(900, 600)}, {StoredRow(1, 999)} }

\* -------------------------------------------------------------------- state
VARIABLES
    header,     \* the header line of the input file (csv fieldnames)
    lines,      \* the data lines of the input file
    committed,  \* the rows of trips in trips.db, as committed
    txn,        \* the rows of trips as the connection sees them
    run,        \* number of the current invocation of main
    pc,         \* position of main
    pos,        \* number of data lines extract has read
    raw,        \* <<r>>: the Raw Row handed from extract to transform
    pending,    \* the Typed Rows yielded by transform and not yet inserted
    curBound,   \* the local variable cur of load is bound
    exc,        \* the exception that ended the run, "" for none
    exitCode,   \* argument of sys.exit, -1 while the run is going
    checked,    \* per data line read in this run, what field_checker did
    yielded,    \* the rows transform has yielded in this run
    inserted,   \* per successful INSERT of this run, the row and the values stored
    before,     \* committed when the run started
    commits,    \* number of conn.commit() calls of this run
    firstTable, \* <<committed>> as the first committing run left it
    log         \* the messages logged in this run

vars == <<header, lines, committed, txn, run, pc, pos, raw, pending, curBound, exc,
          exitCode, checked, yielded, inserted, before, commits, firstTable, log>>

fileVars == <<header, lines>>

Init ==
    /\ header \in SampleHeaders
    /\ lines \in SampleFiles
    /\ committed \in SampleTables
    /\ txn = committed
    /\ run = 1
    /\ pc = "create_db"
    /\ pos = 0
    /\ raw = <<>>
    /\ pending = <<>>
    /\ curBound = FALSE
    /\ exc = ""
    /\ exitCode = -1
    /\ checked = <<>>
    /\ yielded = <<>>
    /\ inserted = <<>>
    /\ before = committed
    /\ commits = 0
    /\ firstTable = <<>>
    /\ log = <<>>

\* An exception leaves main: it is logged and the process exits with 1; the
\* connection is dropped and its open transaction rolled back.
ExitWith(e) ==
    /\ pc' = "exited"
    /\ exc' = e
    /\ exitCode' = 1
    /\ txn' = committed
    /\ log' = Append(log, e)

\* create_db with the DELETE committed at once
create_dbAutocommit ==
    /\ pc = "create_db"
    /\ txn' = SqlDeleteAll(txn)
    /\ committed' = SqlDeleteAll(txn)
    /\ pc' = "open"
    /\ UNCHANGED <<fileVars, run, pos, raw, pending, curBound, exc, exitCode,
                   checked, yielded, inserted, before, commits, firstTable, log>>

\* create_db: connect, CREATE TABLE IF NOT EXISTS, and DELETE FROM trips, which
\* opens the transaction that load commits.
create_db ==
    /\ pc = "create_db"
    /\ txn' = SqlDeleteAll(txn)
    /\ pc' = "open"
    /\ UNCHANGED <<fileVars, committed, run, pos, raw, pending, curBound, exc, exitCode,
                   checked, yielded, inserted, before, commits, firstTable, log>>

\* with open(fname) as f; extract, transform and load are set up lazily
OpenFile ==
    /\ pc = "open"
    /\ pc' = "pull"
    /\ UNCHANGED <<fileVars, committed, txn, run, pos, raw, pending, curBound, exc,
                   exitCode, checked, yielded, inserted, before, commits, firstTable, log>>

\* open(fname) raises: the file is missing or unreadable
OpenFails ==
    /\ pc = "open"
    /\ ExitWith("FileNotFoundError")
    /\ UNCHANGED <<fileVars, committed, run, pos, raw, pending, curBound, checked,
                   yielded, inserted, before, commits, firstTable>>

\* load asks transform for its next row and transform asks extract: extract
\* reads the next data line, or the input is exhausted and the three loops end.
ExtractNext ==
    /\ pc = "pull"
    /\ IF pos < Len(lines)
       THEN /\ raw' = <<DictReaderRow(header, lines[pos + 1])>>
            /\ pos' = pos + 1
            /\ pc' = "check"
       ELSE /\ pc' = "commit"
            /\ UNCHANGED <<raw, pos>>
    /\ UNCHANGED <<fileVars, committed, txn, run, pending, curBound, exc, exitCode,
                   checked, yielded, inserted, before, commits, firstTable, log>>

\* transform with o the outcome of field_checker, collecting its rows in a
\* list: an accepted row waits until the input is exhausted
TransformBuffered(o) ==
    /\ checked' = Append(checked, [k |-> o.k, rows |-> o.rows, exc |-> o.exc])
    /\ raw' = <<>>
    /\ CASE o.k = "raise" ->
             /\ ExitWith(o.exc)
             /\ UNCHANGED <<pending, yielded>>
         [] o.k = "none" ->
             /\ pc' = "pull"
             /\ log' = Append(log, o.log)
             /\ UNCHANGED <<pending, yielded, exc, exitCode, txn>>
         [] o.k = "row" ->
             /\ pc' = IF pos < Len(lines) THEN "pull" ELSE "insert"
             /\ pending' = Append(pending, o.rows[1])
             /\ yielded' = Append(yielded, o.rows[1])
             /\ UNCHANGED <<log, exc, exitCode, txn>>

TransformRowBuffered ==
    /\ pc = "check"
    /\ TransformBuffered(field_checker(raw[1]))
    /\ UNCHANGED <<fileVars, committed, run, pos, curBound, inserted, before, commits,
                   firstTable>>

\* transform with o the outcome of field_checker(r): the exception ends the
\* run, None is skipped, a row is yielded to load
TransformOutcome(o) ==
    /\ checked' = Append(checked, [k |-> o.k, rows |-> o.rows, exc |-> o.exc])
    /\ raw' = <<>>
    /\ CASE o.k = "raise" ->
             /\ ExitWith(o.exc)
             /\ UNCHANGED <<pending, yielded>>
         [] o.k = "none" ->
             /\ pc' = "pull"
             /\ log' = Append(log, o.log)
             /\ UNCHANGED <<pending, yielded, exc, exitCode, txn>>
         [] o.k = "row" ->
             /\ pc' = "insert"
             /\ pending' = Append(pending, o.rows[1])
             /\ yielded' = Append(yielded, o.rows[1])
             /\ UNCHANGED <<log, exc, exitCode, txn>>

\* transform: row = field_checker(r); if row: yield row
TransformRow ==
    /\ pc = "check"
    /\ TransformOutcome(field_checker(raw[1]))
    /\ UNCHANGED <<fileVars, committed, run, pos, curBound, inserted, before, commits,
                   firstTable>>

\* load with r the result of the INSERT of row t: a failure is logged and dropped
InsertResult(t, r) ==
    /\ txn' = r.table
    /\ inserted' = IF r.ok
                   THEN Append(inserted, [idx |-> Len(yielded), row |-> t,
                                          stored |-> CHOOSE x \in r.table \ txn : TRUE])
                   ELSE inserted
    /\ log' = IF r.ok THEN log ELSE Append(log, "insert")

\* load, the body of its loop: cur = conn.cursor(); cur.execute(INSERT ...),
\* any exception of the two logged and dropped
LoadInsert ==
    /\ pc = "insert"
    /\ pending # <<>>
    /\ curBound' = TRUE
    /\ InsertResult(Head(pending), SqlInsert(txn, DictValues(header, Head(pending))))
    /\ pending' = Tail(pending)
    /\ pc' = "pull"
    /\ UNCHANGED <<fileVars, committed, run, pos, raw, exc, exitCode, checked, yielded,
                   before, commits, firstTable>>

\* load, after the loop: conn.commit()
LoadCommit ==
    /\ pc = "commit"
    /\ committed' = txn
    /\ commits' = commits + 1
    /\ firstTable' = IF firstTable = <<>> THEN <<txn>> ELSE firstTable
    /\ pc' = "select"
    /\ UNCHANGED <<fileVars, txn, run, pos, raw, pending, curBound, exc, exitCode,
                   checked, yielded, inserted, before, log>>

\* load, its last statement cur.execute('select * from trips'), and the return
\* of main: cur is bound only if the loop body ran
LoadSelect ==
    /\ pc = "select"
    /\ IF curBound
       THEN /\ pc' = "exited"
            /\ exitCode' = 0
            /\ UNCHANGED <<exc, txn, log>>
       ELSE ExitWith("UnboundLocalError")
    /\ UNCHANGED <<fileVars, committed, run, pos, raw, pending, curBound, checked,
                   yielded, inserted, before, commits, firstTable>>

\* the program is started again on the same file
MainAgain ==
    /\ pc = "exited"
    /\ run < MaxRuns
    /\ run' = run + 1
    /\ pc' = "create_db"
    /\ pos' = 0
    /\ raw' = <<>>
    /\ pending' = <<>>
    /\ curBound' = FALSE
    /\ exc' = ""
    /\ exitCode' = -1
    /\ checked' = <<>>
    /\ yielded' = <<>>
    /\ inserted' = <<>>
    /\ before' = committed
    /\ commits' = 0
    /\ log' = <<>>
    /\ txn' = committed
    /\ UNCHANGED <<fileVars, committed, firstTable>>

Next ==
    \/ create_db
    \/ OpenFile
    \/ OpenFails
    \/ ExtractNext
    \/ TransformRow
    \/ LoadInsert
    \/ LoadCommit
    \/ LoadSelect
    \/ MainAgain

Spec == Init /\ [][Next]_vars

TypeOK ==
    /\ pc \in {"create_db", "open", "pull", "check", "insert", "commit", "select", "exited"}
    /\ pos \in 0..Len(lines)
    /\ Len(raw) <= 1
    /\ exitCode \in {-1, 0, 1}

\* ============================================================== properties
\* What the rules of the specification say about the sample texts, written
\* down independently of the conversions above (the seconds are those Python
\* prints for the texts with TZ=UTC).
GovernedTime == {"start_time", "end_time"}
GovernedInt == {"trip_id", "duration", "bike_id", "plan_duration"}
Governed == GovernedTime \cup GovernedInt

ExpectedPosix(txt) ==
    CASE txt = TxtTime0800 -> 1622534400
      [] txt = TxtTime0810 -> 1622535000
      [] txt = TxtTimeShort -> 1622534400
      [] txt = TxtTimeLeap -> 1583020740
      [] txt = TxtTimeEpoch -> 0
ParseableTimes == {TxtTime0800, TxtTime0810, TxtTimeShort, TxtTimeLeap, TxtTimeEpoch}

ExpectedInt(txt) ==
    CASE Len(txt) = 1 -> DigitVal(txt[1])
      [] txt = Txt600 -> 600
      [] txt = BaseFields["bike_id"] -> 5001
      [] txt = BaseFields["plan_duration"] -> 30

RuleOk(c, v) ==
    IF c \in GovernedTime THEN v.t = "str" /\ v.s \in ParseableTimes
    ELSE v.t = "str" /\ v.s # <<>> /\ AllIn(v.s, DecimalChars)

\* A time text meets its rule when it names a date and time that exist, in the
\* given format; an integer text when it is made of decimal digits only.
\* at least one governed field of the row fails its rule
FailsRule(r) == \E c \in Governed \cap DOMAIN r : ~RuleOk(c, r[c])
\* every governed field is there and meets its rule
PassesRules(r) == \A c \in Governed : c \in DOMAIN r /\ RuleOk(c, r[c])

ExpectedTyped(r) ==
    [c \in DOMAIN r |->
        IF c \in GovernedTime THEN PyFloat(ExpectedPosix(r[c].s))
        ELSE IF c \in GovernedInt THEN PyInt(ExpectedInt(r[c].s))
        ELSE r[c]]

RawRowAt(i) == DictReaderRow(header, lines[i])

\* the values as sqlite stores them when the i-th value goes to the i-th column
StoredPositional(values) == [k \in 1..NumCols |-> ApplyAffinity(ColType[k], values[k])]
\* the values as sqlite stores them when every value goes to the column of its name
StoredByName(t) == [k \in 1..NumCols |-> ApplyAffinity(ColType[k], t[TableCols[k]])]

FromPassingLine(r) ==
    \E i \in 1..pos :
        /\ PassesRules(RawRowAt(i))
        /\ Len(header) = NumCols
        /\ r = StoredPositional(DictValues(header, ExpectedTyped(RawRowAt(i))))

\* C1: a Raw Row with a governed field that fails its rule is not returned by
\* field_checker, is not yielded by transform, and no row of the table comes
\* from it: what is yielded and stored is the full conversion of a line whose
\* governed fields all meet their rules.
C1_FailingRowNeverLoaded ==
    /\ \A i \in 1..Len(checked) :
          FailsRule(RawRowAt(i)) => checked[i].k # "row" /\ checked[i].rows = <<>>
    /\ \A j \in 1..Len(yielded) :
          \E i \in 1..pos : /\ ~FailsRule(RawRowAt(i))
                            /\ yielded[j] = ExpectedTyped(RawRowAt(i))
    /\ pc \notin {"create_db", "exited"} => \A r \in txn : FromPassingLine(r)
    /\ commits > 0 => \A r \in committed : FromPassingLine(r)

C1_Witness ==
    /\ pc = "exited"
    /\ commits = 1
    /\ committed # {}
    /\ \E i \in 1..Len(checked) : FailsRule(RawRowAt(i)) /\ checked[i].k = "none"

\* C2: for a Raw Row whose governed fields all meet their rules field_checker
\* returns a row with the same keys, the timestamps replaced by their POSIX
\* seconds, the integer fields by their values, every other field unchanged.
C2_ValidRowConverted ==
    \A i \in 1..Len(checked) :
        PassesRules(RawRowAt(i)) =>
            /\ checked[i].k = "row"
            /\ checked[i].rows = <<ExpectedTyped(RawRowAt(i))>>

C2_Witness ==
    \E i \in 1..Len(checked) :
        /\ PassesRules(RawRowAt(i))
        /\ checked[i].k = "row"
        /\ checked[i].rows[1]["start_time"] = PyFloat(1622534400)
        /\ checked[i].rows[1]["bike_type"] = PyNone

\* C3: a Raw Row from which a governed column is absent as a key is rejected
\* by field_checker (no row, no exception).
C3_MissingColumnRejected ==
    \A i \in 1..Len(checked) :
        (\E c \in Governed : c \notin DOMAIN RawRowAt(i)) => checked[i].k = "none"

\* the table a run leaves for the input, loaded into an empty table
RECURSIVE TableOfInput(_, _)
TableOfInput(i, table) ==
    IF i > Len(lines) THEN table
    ELSE IF PassesRules(RawRowAt(i))
    THEN TableOfInput(i + 1,
            SqlInsert(table, DictValues(header, ExpectedTyped(RawRowAt(i)))).table)
    ELSE TableOfInput(i + 1, table)

\* C4: the table a run commits depends on the input only, not on the rows
\* there before the run, and a second run on the same input leaves the table
\* the first run left.
C4_FullRefresh ==
    commits > 0 =>
        /\ committed = TableOfInput(1, {})
        /\ firstTable = <<committed>>

C4_Witness ==
    /\ run = 2
    /\ pc = "exited"
    /\ commits = 1
    /\ before # {}
    /\ committed = before

\* C5: within one run a row whose trip_id is the trip_id of an earlier row of
\* the run is not inserted, and every row whose trip_id is new is inserted
\* and in the table.
C5_DuplicateSkipped ==
    \A j \in 1..(Len(yielded) - Len(pending)) :
        LET dup == \E k \in 1..(j - 1) : yielded[k]["trip_id"] = yielded[j]["trip_id"]
            ins == {n \in 1..Len(inserted) : inserted[n].idx = j}
        IN  IF dup THEN ins = {}
            ELSE /\ ins # {}
                 /\ pc # "exited" => \A n \in ins : inserted[n].stored \in txn

\* C6: a run that reaches the end of its input exits with code 0.
C6_ExitZero ==
    (pc = "exited" /\ commits > 0) => exitCode = 0

\* C7: every inserted row is stored with each value in the column of its name,
\* whatever the order of the names in the header.
C7_StoredByName ==
    \A n \in 1..Len(inserted) :
        Len(header) = NumCols => inserted[n].stored = StoredByName(inserted[n].row)

RECURSIVE ExpectedYield(_)
ExpectedYield(i) ==
    IF i > Len(lines) THEN <<>>
    ELSE IF PassesRules(RawRowAt(i))
    THEN <<ExpectedTyped(RawRowAt(i))>> \o ExpectedYield(i + 1)
    ELSE ExpectedYield(i + 1)

\* C8: when the run is over, transform has yielded exactly the rows of the
\* input that pass validation, converted and in input order.
C8_YieldsAllValid ==
    (pc = "exited" /\ exc # "FileNotFoundError") => yielded = ExpectedYield(1)

\* C9: a data line is read only when every line before it has been validated
\* and, if accepted, its insert attempted; at most one row is in flight.
C9_OneRowInFlight ==
    [][/\ pos' > pos => (raw = <<>> /\ pending = <<>> /\ Len(checked) = pos)
       /\ Len(raw') + Len(pending') <= 1]_vars

C9_Witness ==
    /\ pos = 2
    /\ pc = "check"
    /\ Len(inserted) = 1

\* C10: the committed table changes only at the commit of load, at most once
\* in a run, and a run that ends before its commit leaves the committed table
\* as it was before the run.
C10_SingleCommit ==
    [][/\ committed' # committed => pc = "commit"
       /\ commits' <= 1
       /\ commits' = 0 => committed' = before']_vars

C10_Witness ==
    /\ pc = "exited"
    /\ exc = "ValueError"
    /\ commits = 0
    /\ inserted # <<>>
    /\ before # {}
    /\ committed = before

====
